---------------------------- MODULE Spec2Model ----------------------------
(***************************************************************************)
(* Model of processData (backend/routes/analytics.js), the filter ->       *)
(* group/aggregate -> sort pipeline applied to the rows of a sheet.        *)
(*                                                                         *)
(* JavaScript values are tagged records of one shape:                      *)
(*   t  the type tag: "undefined", "null", "boolean", "number", "string",  *)
(*      "array"                                                            *)
(*   n  numerator of a number (0/1 for a boolean), d its denominator > 0;  *)
(*      d = 0 encodes NaN; r says the number is the square root of n/d     *)
(*      (an irrational std_dev)                                            *)
(*   s  the characters of a string, one one-character string per element   *)
(*   l  the elements of an array                                           *)
(* A row is a function from the column names it has to cell values.        *)
(***************************************************************************)
EXTENDS Integers, Sequences, FiniteSets, TLC

(***************************************************************************)
(* JavaScript values                                                       *)
(***************************************************************************)
Undef == [t |-> "undefined", n |-> 0, d |-> 1, r |-> FALSE, s |-> <<>>, l |-> <<>>]
Null == [t |-> "null", n |-> 0, d |-> 1, r |-> FALSE, s |-> <<>>, l |-> <<>>]
Bool(b) == [t |-> "boolean", n |-> IF b THEN 1 ELSE 0, d |-> 1, r |-> FALSE, s |-> <<>>, l |-> <<>>]
Num(k) == [t |-> "number", n |-> k, d |-> 1, r |-> FALSE, s |-> <<>>, l |-> <<>>]
NaN == [t |-> "number", n |-> 0, d |-> 0, r |-> FALSE, s |-> <<>>, l |-> <<>>]
Str(chars) == [t |-> "string", n |-> 0, d |-> 1, r |-> FALSE, s |-> chars, l |-> <<>>]
Arr(elems) == [t |-> "array", n |-> 0, d |-> 1, r |-> FALSE, s |-> <<>>, l |-> elems]

IsNaN(v) == v.t = "number" /\ v.d = 0
IsNullish(v) == v.t \in {"undefined", "null"}

\* row[column]: a key the row does not have reads as undefined
Get(row, column) == IF column \in DOMAIN row THEN row[column] ELSE Undef

(***************************************************************************)
(* Text conversions                                                        *)
(***************************************************************************)
Digits == <<"0", "1", "2", "3", "4", "5", "6", "7", "8", "9">>
IsDigit(c) == \E i \in 1..10 : Digits[i] = c
DigitVal(c) == (CHOOSE i \in 1..10 : Digits[i] = c) - 1

RECURSIVE NatToStr(_)
NatToStr(k) == IF k < 10 THEN <<Digits[k + 1]>>
               ELSE NatToStr(k \div 10) \o <<Digits[(k % 10) + 1]>>

\* Number::toString of an integer-valued number
NumToStr(k) == IF k < 0 THEN <<"-">> \o NatToStr(0 - k) ELSE NatToStr(k)

RECURSIVE DigitsToNat(_)
DigitsToNat(chars) == IF chars = <<>> THEN 0
                      ELSE 10 * DigitsToNat(SubSeq(chars, 1, Len(chars) - 1))
                           + DigitVal(chars[Len(chars)])

AllDigits(chars) == chars # <<>> /\ \A i \in 1..Len(chars) : IsDigit(chars[i])

\* StringToNumber for text without white space, ".", exponent or radix prefix:
\* the empty text is 0, an optionally signed digit string its value, the rest NaN
StringToNumber(chars) ==
  IF chars = <<>> THEN Num(0)
  ELSE IF AllDigits(chars) THEN Num(DigitsToNat(chars))
  ELSE IF chars[1] = "-" /\ AllDigits(Tail(chars)) THEN Num(0 - DigitsToNat(Tail(chars)))
  ELSE IF chars[1] = "+" /\ AllDigits(Tail(chars)) THEN Num(DigitsToNat(Tail(chars)))
  ELSE NaN

RECURSIVE ToStr(_)
RECURSIVE JoinFrom(_, _, _)
\* Array.prototype.join: undefined and null elements give the empty text
JoinFrom(elems, sep, i) ==
  IF i > Len(elems) THEN <<>>
  ELSE (IF i > 1 THEN <<sep>> ELSE <<>>)
       \o (IF IsNullish(elems[i]) THEN <<>> ELSE ToStr(elems[i]))
       \o JoinFrom(elems, sep, i + 1)

Join(elems, sep) == JoinFrom(elems, sep, 1)

\* String(v); a number here is an integer or NaN
ToStr(v) ==
  CASE v.t = "undefined" -> <<"u", "n", "d", "e", "f", "i", "n", "e", "d">>
    [] v.t = "null" -> <<"n", "u", "l", "l">>
    [] v.t = "boolean" -> IF v.n = 1 THEN <<"t", "r", "u", "e">>
                          ELSE <<"f", "a", "l", "s", "e">>
    [] v.t = "number" -> IF v.d = 0 THEN <<"N", "a", "N">> ELSE NumToStr(v.n)
    [] v.t = "string" -> v.s
    [] v.t = "array" -> Join(v.l, ",")

\* Number(v)
ToNumber(v) ==
  CASE v.t = "undefined" -> NaN
    [] v.t = "null" -> Num(0)
    [] v.t = "boolean" -> Num(v.n)
    [] v.t = "number" -> v
    [] v.t = "string" -> StringToNumber(v.s)
    [] v.t = "array" -> StringToNumber(Join(v.l, ","))

Upper == <<"A", "B", "C", "D", "E", "F", "G", "H", "I", "J", "K", "L", "M",
           "N", "O", "P", "Q", "R", "S", "T", "U", "V", "W", "X", "Y", "Z">>
Lower == <<"a", "b", "c", "d", "e", "f", "g", "h", "i", "j", "k", "l", "m",
           "n", "o", "p", "q", "r", "s", "t", "u", "v", "w", "x", "y", "z">>

\* String.prototype.toLowerCase
ToLowerCase(chars) ==
  [i \in 1..Len(chars) |->
     IF \E k \in 1..26 : Upper[k] = chars[i]
     THEN Lower[CHOOSE k \in 1..26 : Upper[k] = chars[i]]
     ELSE chars[i]]

\* String.prototype.includes
Includes(hay, needle) ==
  \E i \in 0..(Len(hay) - Len(needle)) : SubSeq(hay, i + 1, i + Len(needle)) = needle

(***************************************************************************)
(* Comparisons                                                             *)
(***************************************************************************)
\* a < b and a = b on numbers n/d or sqrt(n/d), d > 0; false when either is NaN
NumLess(a, b) ==
  /\ a.d # 0 /\ b.d # 0
  /\ CASE a.r = b.r -> a.n * b.d < b.n * a.d
       [] a.r /\ ~b.r -> b.n > 0 /\ a.n * b.d * b.d < b.n * b.n * a.d
       [] ~a.r /\ b.r -> a.n < 0 \/ a.n * a.n * b.d < b.n * a.d * a.d
NumEq(a, b) == a.d # 0 /\ b.d # 0 /\ ~NumLess(a, b) /\ ~NumLess(b, a)
NumLeq(a, b) == NumLess(a, b) \/ NumEq(a, b)

\* a === b on primitives (two arrays are equal only as the same object,
\* which a cell and a filter value never are)
StrictEq(a, b) ==
  /\ a.t = b.t
  /\ CASE a.t = "number" -> NumEq(a, b)
       [] a.t = "string" -> a.s = b.s
       [] a.t = "boolean" -> a.n = b.n
       [] a.t = "array" -> FALSE
       [] OTHER -> TRUE

\* SameValueZero, the comparison of Array.prototype.includes
SameValueZero(a, b) == StrictEq(a, b) \/ (IsNaN(a) /\ IsNaN(b))

\* a == b (IsLooselyEqual)
RECURSIVE LooseEq(_, _)
LooseEq(a, b) ==
  IF a.t = b.t THEN StrictEq(a, b)
  ELSE IF IsNullish(a) /\ IsNullish(b) THEN TRUE
  ELSE IF IsNullish(a) \/ IsNullish(b) THEN FALSE
  ELSE IF a.t = "number" /\ b.t = "string" THEN NumEq(a, StringToNumber(b.s))
  ELSE IF a.t = "string" /\ b.t = "number" THEN NumEq(StringToNumber(a.s), b)
  ELSE IF a.t = "boolean" THEN LooseEq(Num(a.n), b)
  ELSE IF b.t = "boolean" THEN LooseEq(a, Num(b.n))
  ELSE IF a.t = "array" THEN LooseEq(Str(Join(a.l, ",")), b)
  ELSE IF b.t = "array" THEN LooseEq(a, Str(Join(b.l, ",")))
  ELSE FALSE

(***************************************************************************)
(* Stage 1: filters (analytics.js 22-52)                                   *)
(***************************************************************************)
\* value[i] of the `between` case (i counted from 0): an array element, a
\* character of a string, undefined on a number or boolean
Index(value, i) ==
  CASE value.t = "array" -> IF i + 1 <= Len(value.l) THEN value.l[i + 1] ELSE Undef
    [] value.t = "string" -> IF i + 1 <= Len(value.s) THEN Str(<<value.s[i + 1]>>) ELSE Undef
    [] OTHER -> Undef

\* Array.prototype.includes
ArrayIncludes(value, cellValue) ==
  \E i \in 1..Len(value.l) : SameValueZero(value.l[i], cellValue)

\* OpEquals with `===` written for `==`
OpEqualsStrict(cellValue, value) == StrictEq(cellValue, value)
OpEquals(cellValue, value) == LooseEq(cellValue, value)

OpNotEquals(cellValue, value) == ~LooseEq(cellValue, value)

OpContains(cellValue, value) ==
  Includes(ToLowerCase(ToStr(cellValue)), ToLowerCase(ToStr(value)))

OpNotContains(cellValue, value) ==
  ~Includes(ToLowerCase(ToStr(cellValue)), ToLowerCase(ToStr(value)))

OpGreaterThan(cellValue, value) == NumLess(ToNumber(value), ToNumber(cellValue))

OpLessThan(cellValue, value) == NumLess(ToNumber(cellValue), ToNumber(value))

\* OpBetween with `<` written for `<=` at the upper end
OpBetweenExclusive(cellValue, value) ==
  /\ NumLeq(ToNumber(Index(value, 0)), ToNumber(cellValue))
  /\ NumLess(ToNumber(cellValue), ToNumber(Index(value, 1)))

OpBetween(cellValue, value) ==
  /\ NumLeq(ToNumber(Index(value, 0)), ToNumber(cellValue))
  /\ NumLeq(ToNumber(cellValue), ToNumber(Index(value, 1)))

OpIn(cellValue, value) == value.t = "array" /\ ArrayIncludes(value, cellValue)

\* OpNotIn as the plain negation of OpIn
OpNotInNegation(cellValue, value) == ~(value.t = "array" /\ ArrayIncludes(value, cellValue))
OpNotIn(cellValue, value) == value.t = "array" /\ ~ArrayIncludes(value, cellValue)

\* value[0] on undefined or null raises a TypeError
PredicateThrows(filter) == filter.operator = "between" /\ IsNullish(filter.value)

\* Predicate with a default case that rejects the row
PredicateRejectsUnknown(row, filter) ==
  LET cellValue == Get(row, filter.column)
      value == filter.value
  IN CASE filter.operator = "equals" -> OpEquals(cellValue, value)
       [] filter.operator = "not_equals" -> OpNotEquals(cellValue, value)
       [] filter.operator = "contains" -> OpContains(cellValue, value)
       [] filter.operator = "not_contains" -> OpNotContains(cellValue, value)
       [] filter.operator = "greater_than" -> OpGreaterThan(cellValue, value)
       [] filter.operator = "less_than" -> OpLessThan(cellValue, value)
       [] filter.operator = "between" -> OpBetween(cellValue, value)
       [] filter.operator = "in" -> OpIn(cellValue, value)
       [] filter.operator = "not_in" -> OpNotIn(cellValue, value)
       [] OTHER -> FALSE
\* the callback of processedData.filter, one row against one filter
Predicate(row, filter) ==
  LET cellValue == Get(row, filter.column)
      value == filter.value
  IN CASE filter.operator = "equals" -> OpEquals(cellValue, value)
       [] filter.operator = "not_equals" -> OpNotEquals(cellValue, value)
       [] filter.operator = "contains" -> OpContains(cellValue, value)
       [] filter.operator = "not_contains" -> OpNotContains(cellValue, value)
       [] filter.operator = "greater_than" -> OpGreaterThan(cellValue, value)
       [] filter.operator = "less_than" -> OpLessThan(cellValue, value)
       [] filter.operator = "between" -> OpBetween(cellValue, value)
       [] filter.operator = "in" -> OpIn(cellValue, value)
       [] filter.operator = "not_in" -> OpNotIn(cellValue, value)
       [] OTHER -> TRUE

\* The outcome of a stage: the rows it leaves in processedData, or an exception
Returned(rows) == [threw |-> FALSE, rows |-> rows]
Threw == [threw |-> TRUE, rows |-> <<>>]

\* processedData = processedData.filter(...) for one filter; the callback runs
\* once per row, so it can only throw when there is a row
FilterOne(rows, filter) ==
  IF rows # <<>> /\ PredicateThrows(filter) THEN Threw
  ELSE Returned(SelectSeq(rows, LAMBDA row : Predicate(row, filter)))

\* config.dataSelection.filters.forEach, from filter i on
RECURSIVE FiltersFrom(_, _, _)
FiltersFrom(rows, filters, i) ==
  IF i > Len(filters) THEN Returned(rows)
  ELSE LET one == FilterOne(rows, filters[i])
       IN IF one.threw THEN Threw ELSE FiltersFrom(one.rows, filters, i + 1)

FilterStage(rows, filters) ==
  IF Len(filters) > 0 THEN FiltersFrom(rows, filters, 1) ELSE Returned(rows)

(***************************************************************************)
(* Stage 2: groupBy and aggregations (analytics.js 55-115)                 *)
(***************************************************************************)
\* String.prototype.split on a one-character separator
RECURSIVE Split(_, _)
Split(chars, sep) ==
  IF \E i \in 1..Len(chars) : chars[i] = sep
  THEN LET i == CHOOSE j \in 1..Len(chars) :
                  chars[j] = sep /\ \A k \in 1..(j - 1) : chars[k] # sep
       IN <<SubSeq(chars, 1, i - 1)>> \o Split(SubSeq(chars, i + 1, Len(chars)), sep)
  ELSE <<chars>>

\* config.dataSelection.groupBy.map(col => row[col]).join('|')
GroupKey(row, groupBy) ==
  Join([i \in 1..Len(groupBy) |-> Get(row, groupBy[i])], "|")

\* The names `grouped = {}` inherits from Object.prototype: grouped[name] is
\* a function (an object for __proto__), truthy and without a push method
ObjectPrototypeKeys ==
  {<<"c", "o", "n", "s", "t", "r", "u", "c", "t", "o", "r">>,
   <<"t", "o", "S", "t", "r", "i", "n", "g">>,
   <<"v", "a", "l", "u", "e", "O", "f">>,
   <<"h", "a", "s", "O", "w", "n", "P", "r", "o", "p", "e", "r", "t", "y">>,
   <<"i", "s", "P", "r", "o", "t", "o", "t", "y", "p", "e", "O", "f">>,
   <<"p", "r", "o", "p", "e", "r", "t", "y", "I", "s", "E", "n", "u", "m", "e", "r", "a", "b", "l", "e">>,
   <<"t", "o", "L", "o", "c", "a", "l", "e", "S", "t", "r", "i", "n", "g">>,
   <<"_", "_", "p", "r", "o", "t", "o", "_", "_">>,
   <<"_", "_", "d", "e", "f", "i", "n", "e", "G", "e", "t", "t", "e", "r", "_", "_">>,
   <<"_", "_", "d", "e", "f", "i", "n", "e", "S", "e", "t", "t", "e", "r", "_", "_">>,
   <<"_", "_", "l", "o", "o", "k", "u", "p", "G", "e", "t", "t", "e", "r", "_", "_">>,
   <<"_", "_", "l", "o", "o", "k", "u", "p", "S", "e", "t", "t", "e", "r", "_", "_">>}

\* `grouped`: keys in the order of their creation, and the rows under each key
EmptyObject == [keys |-> <<>>, rows |-> <<>>]
HasOwn(grouped, key) == \E i \in 1..Len(grouped.keys) : grouped.keys[i] = key
KeyIndex(grouped, key) == CHOOSE i \in 1..Len(grouped.keys) : grouped.keys[i] = key

\* one turn of processedData.forEach: the row goes under its group key
GroupPush(grouped, row, groupBy) ==
  LET groupKey == GroupKey(row, groupBy)
  IN IF HasOwn(grouped, groupKey)
     THEN [grouped EXCEPT !.rows[KeyIndex(grouped, groupKey)] = Append(@, row)]
     ELSE [keys |-> Append(grouped.keys, groupKey),
           rows |-> Append(grouped.rows, <<row>>)]

\* grouped[groupKey] is inherited: no array is stored and .push is not a function
GroupPushThrows(grouped, row, groupBy) ==
  LET groupKey == GroupKey(row, groupBy)
  IN ~HasOwn(grouped, groupKey) /\ groupKey \in ObjectPrototypeKeys

RECURSIVE GroupFrom(_, _, _, _)
GroupFrom(grouped, rows, groupBy, i) ==
  IF i > Len(rows) THEN [threw |-> FALSE, grouped |-> grouped]
  ELSE IF GroupPushThrows(grouped, rows[i], groupBy)
  THEN [threw |-> TRUE, grouped |-> grouped]
  ELSE GroupFrom(GroupPush(grouped, rows[i], groupBy), rows, groupBy, i + 1)

\* An integer index key: the canonical decimal text of an integer below
\* 2^32-1.  Keys of up to 9 digits are decided here (all of them are below
\* 2^32-1); longer digit strings are not drawn.
IsArrayIndex(key) ==
  AllDigits(key) /\ Len(key) <= 9 /\ NatToStr(DigitsToNat(key)) = key

\* positions of `keys` in the order of OrdinaryOwnPropertyKeys: integer index
\* keys by ascending value, then the other keys in the order of their creation
RECURSIVE AscendingIndexKeys(_, _)
AscendingIndexKeys(keys, left) ==
  IF left = {} THEN <<>>
  ELSE LET i == CHOOSE j \in left :
                  \A k \in left : DigitsToNat(keys[j]) <= DigitsToNat(keys[k])
       IN <<i>> \o AscendingIndexKeys(keys, left \ {i})

KeyOrder(keys) ==
  AscendingIndexKeys(keys, {i \in 1..Len(keys) : IsArrayIndex(keys[i])})
  \o SelectSeq([i \in 1..Len(keys) |-> i], LAMBDA i : ~IsArrayIndex(keys[i]))

\* Object.entries(grouped): the [groupKey, rows] pairs
ObjectEntries(grouped) ==
  LET order == KeyOrder(grouped.keys)
  IN [i \in 1..Len(order) |-> [groupKey |-> grouped.keys[order[i]],
                               rows |-> grouped.rows[order[i]]]]

\* Fractions in lowest terms
RECURSIVE Gcd(_, _)
Gcd(a, b) == IF b = 0 THEN a ELSE Gcd(b, a % b)
Abs(k) == IF k < 0 THEN 0 - k ELSE k
Frac(n, d) ==
  IF d = 0 THEN NaN
  ELSE LET g == Gcd(Abs(n), Abs(d))
           sign == IF d < 0 THEN 0 - 1 ELSE 1
       IN [Num((sign * n) \div g) EXCEPT !.d = (sign * d) \div g]

IsSquare(k) == \E j \in 0..k : j * j = k
Root(k) == CHOOSE j \in 0..k : j * j = k
\* Math.sqrt of a fraction >= 0: a fraction when both terms are squares
Sqrt(v) ==
  IF v.d = 0 THEN NaN
  ELSE IF IsSquare(v.n) /\ IsSquare(v.d) THEN Frac(Root(v.n), Root(v.d))
  ELSE [v EXCEPT !.r = TRUE]

\* Values with NaN replaced by 0 instead of filtered out
ValuesZeroed(rows, column) ==
  [i \in 1..Len(rows) |->
     IF IsNaN(ToNumber(Get(rows[i], column))) THEN 0 ELSE ToNumber(Get(rows[i], column)).n]
\* rows.map(row => Number(row[column])).filter(val => !isNaN(val)); the
\* coerced values of the cells drawn here are integers, kept as integers
Values(rows, column) ==
  LET coerced == [i \in 1..Len(rows) |-> ToNumber(Get(rows[i], column))]
      kept == SelectSeq(coerced, LAMBDA val : ~IsNaN(val))
  IN [i \in 1..Len(kept) |-> kept[i].n]

\* values.reduce((a, b) => a + b, 0)
RECURSIVE Sum(_)
Sum(values) == IF values = <<>> THEN 0 ELSE Sum(SubSeq(values, 1, Len(values) - 1)) + values[Len(values)]

\* Math.min(...values) and Math.max(...values) of a non-empty list
Min(values) == CHOOSE x \in {values[i] : i \in 1..Len(values)} :
                 \A i \in 1..Len(values) : x <= values[i]
Max(values) == CHOOSE x \in {values[i] : i \in 1..Len(values)} :
                 \A i \in 1..Len(values) : x >= values[i]

\* [...values].sort((a, b) => a - b)
RECURSIVE SortAscending(_)
SortAscending(values) ==
  IF values = <<>> THEN <<>>
  ELSE LET i == CHOOSE j \in 1..Len(values) : \A k \in 1..Len(values) : values[j] <= values[k]
       IN <<values[i]>> \o SortAscending(SubSeq(values, 1, i - 1) \o SubSeq(values, i + 1, Len(values)))

\* Median that takes sorted[mid] whatever the parity of the length
MedianUpperMiddle(values) ==
  LET sorted == SortAscending(values)
  IN IF Len(sorted) = 0 THEN NaN ELSE Num(sorted[(Len(sorted) \div 2) + 1])
\* sorted[mid - 1] and sorted[mid] are undefined on an empty list: NaN
Median(values) ==
  LET sorted == SortAscending(values)
      mid == Len(sorted) \div 2
  IN IF Len(sorted) % 2 = 0
     THEN IF Len(sorted) = 0 THEN NaN ELSE Frac(sorted[mid] + sorted[mid + 1], 2)
     ELSE Num(sorted[mid + 1])

\* mean = sum / length (0/0 is NaN); variance = sum of (b - mean)^2 / length,
\* which is sum of (length * b - sum)^2 / length^3
RECURSIVE SumSquares(_, _, _)
SumSquares(values, len, sum) ==
  IF values = <<>> THEN 0
  ELSE SumSquares(Tail(values), len, sum)
       + (len * Head(values) - sum) * (len * Head(values) - sum)

StdDev(values) ==
  LET len == Len(values)
  IN IF len = 0 THEN NaN
     ELSE Sqrt(Frac(SumSquares(values, len, Sum(values)), len * len * len))

\* result[key] = val
Assign(result, key, val) ==
  [k \in DOMAIN result \cup {key} |-> IF k = key THEN val ELSE result[k]]

AggFunctions == {"sum", "avg", "count", "min", "max", "median", "std_dev"}

\* Aggregate without the `values.length > 0 ? ... : 0` guards of avg, min, max
AggregateUnguarded(result, rows, agg) ==
  LET values == Values(rows, agg.column)
      field == agg.column \o "_" \o agg.function
  IN CASE agg.function = "sum" -> Assign(result, field, Num(Sum(values)))
       [] agg.function = "avg" -> Assign(result, field, Frac(Sum(values), Len(values)))
       [] agg.function = "count" -> Assign(result, field, Num(Len(values)))
       [] agg.function = "min" ->
            Assign(result, field, IF Len(values) > 0 THEN Num(Min(values)) ELSE NaN)
       [] agg.function = "max" ->
            Assign(result, field, IF Len(values) > 0 THEN Num(Max(values)) ELSE NaN)
       [] agg.function = "median" -> Assign(result, field, Median(values))
       [] agg.function = "std_dev" -> Assign(result, field, StdDev(values))
       [] OTHER -> result
\* the switch (aggFunc) of one aggregation; an unknown function adds no field
Aggregate(result, rows, agg) ==
  LET values == Values(rows, agg.column)
      field == agg.column \o "_" \o agg.function
  IN CASE agg.function = "sum" -> Assign(result, field, Num(Sum(values)))
       [] agg.function = "avg" ->
            Assign(result, field,
                   IF Len(values) > 0 THEN Frac(Sum(values), Len(values)) ELSE Num(0))
       [] agg.function = "count" -> Assign(result, field, Num(Len(values)))
       [] agg.function = "min" ->
            Assign(result, field, IF Len(values) > 0 THEN Num(Min(values)) ELSE Num(0))
       [] agg.function = "max" ->
            Assign(result, field, IF Len(values) > 0 THEN Num(Max(values)) ELSE Num(0))
       [] agg.function = "median" -> Assign(result, field, Median(values))
       [] agg.function = "std_dev" -> Assign(result, field, StdDev(values))
       [] OTHER -> result

\* groupBy.forEach((col, index) => result[col] = groupKey.split('|')[index])
RECURSIVE GroupColumnsFrom(_, _, _, _)
GroupColumnsFrom(result, parts, groupBy, i) ==
  IF i > Len(groupBy) THEN result
  ELSE GroupColumnsFrom(
         Assign(result, groupBy[i], IF i <= Len(parts) THEN Str(parts[i]) ELSE Undef),
         parts, groupBy, i + 1)

RECURSIVE AggregationsFrom(_, _, _, _)
AggregationsFrom(result, rows, aggregations, i) ==
  IF i > Len(aggregations) THEN result
  ELSE AggregationsFrom(Aggregate(result, rows, aggregations[i]), rows, aggregations, i + 1)

\* the callback of Object.entries(grouped).map: the record of one group
GroupRecord(entry, groupBy, aggregations) ==
  AggregationsFrom(
    GroupColumnsFrom(<<>>, Split(entry.groupKey, "|"), groupBy, 1),
    entry.rows, aggregations, 1)

\* GroupStage with `length >= 0` written for `length > 0`
GroupStageAlways(rows, groupBy, aggregations) ==
  LET g == GroupFrom(EmptyObject, rows, groupBy, 1)
      entries == ObjectEntries(g.grouped)
  IN IF g.threw THEN Threw
     ELSE Returned([i \in 1..Len(entries) |->
                      GroupRecord(entries[i], groupBy, aggregations)])

\* GroupStage that, without groupBy, aggregates every row as its own group
GroupStageAggregatesRows(rows, groupBy, aggregations) ==
  IF Len(groupBy) > 0
  THEN LET g == GroupFrom(EmptyObject, rows, groupBy, 1)
           entries == ObjectEntries(g.grouped)
       IN IF g.threw THEN Threw
          ELSE Returned([i \in 1..Len(entries) |->
                           GroupRecord(entries[i], groupBy, aggregations)])
  ELSE Returned([i \in 1..Len(rows) |->
                   AggregationsFrom(rows[i], <<rows[i]>>, aggregations, 1)])
GroupStage(rows, groupBy, aggregations) ==
  IF Len(groupBy) > 0
  THEN LET g == GroupFrom(EmptyObject, rows, groupBy, 1)
           entries == ObjectEntries(g.grouped)
       IN IF g.threw THEN Threw
          ELSE Returned([i \in 1..Len(entries) |->
                           GroupRecord(entries[i], groupBy, aggregations)])
  ELSE Returned(rows)

(***************************************************************************)
(* Stage 3: orderBy (analytics.js 118-130)                                 *)
(***************************************************************************)
\* The UTF-16 code unit of a character: digits, letters and the punctuation
\* that occurs in the texts drawn here
Punctuation == <<[c |-> " ", code |-> 32], [c |-> "+", code |-> 43],
                 [c |-> ",", code |-> 44], [c |-> "-", code |-> 45],
                 [c |-> "_", code |-> 95], [c |-> "|", code |-> 124]>>
CharCode(c) ==
  IF IsDigit(c) THEN 48 + DigitVal(c)
  ELSE IF \E k \in 1..26 : Upper[k] = c THEN 64 + CHOOSE k \in 1..26 : Upper[k] = c
  ELSE IF \E k \in 1..26 : Lower[k] = c THEN 96 + CHOOSE k \in 1..26 : Lower[k] = c
  ELSE Punctuation[CHOOSE i \in 1..Len(Punctuation) : Punctuation[i].c = c].code

\* a < b on two strings: by code units, a proper prefix first
RECURSIVE StrLess(_, _)
StrLess(a, b) ==
  IF b = <<>> THEN FALSE
  ELSE IF a = <<>> THEN TRUE
  ELSE IF Head(a) = Head(b) THEN StrLess(Tail(a), Tail(b))
  ELSE CharCode(Head(a)) < CharCode(Head(b))

\* a < b (IsLessThan): two strings by code units, anything else as numbers
JsLess(a, b) ==
  IF a.t = "string" /\ b.t = "string" THEN StrLess(a.s, b.s)
  ELSE NumLess(ToNumber(a), ToNumber(b))

\* the comparator handed to processedData.sort, from sort spec i on
RECURSIVE CompareFrom(_, _, _, _)
CompareFrom(a, b, orderBy, i) ==
  IF i > Len(orderBy) THEN 0
  ELSE LET aVal == Get(a, orderBy[i].column)
           bVal == Get(b, orderBy[i].column)
       IN IF JsLess(aVal, bVal) THEN (IF orderBy[i].direction = "asc" THEN 0 - 1 ELSE 1)
          ELSE IF JsLess(bVal, aVal) THEN (IF orderBy[i].direction = "asc" THEN 1 ELSE 0 - 1)
          ELSE CompareFrom(a, b, orderBy, i + 1)

Compare(a, b, orderBy) == CompareFrom(a, b, orderBy, 1)

\* The comparator's results on all pairs of elements, row by row: the result on
\* elements i and j is entry (i - 1) * n + j
RECURSIVE ComparisonsFrom(_, _, _)
ComparisonsFrom(rows, orderBy, k) ==
  IF k > Len(rows) * Len(rows) THEN <<>>
  ELSE <<Compare(rows[((k - 1) \div Len(rows)) + 1], rows[((k - 1) % Len(rows)) + 1], orderBy)>>
       \o ComparisonsFrom(rows, orderBy, k + 1)

Comparisons(rows, orderBy) == ComparisonsFrom(rows, orderBy, 1)

\* The comparator is consistent when a =CF b, a <CF b, a >CF b partition the
\* pairs so that =CF is an equivalence and <CF a strict order compatible with
\* it; with c(i, j) = -c(j, i) this is transitivity of c <= 0.
ConsistentComparator(c, n) ==
  LET I == 1..n
      at(i, j) == c[(i - 1) * n + j]
  IN /\ \A i, j \in I : at(i, j) = 0 - at(j, i)
     /\ \A i, j, k \in I : at(i, j) <= 0 /\ at(j, k) <= 0 => at(i, k) <= 0

Perms(n) == {p \in [1..n -> 1..n] : \A i, j \in 1..n : p[i] = p[j] => i = j}

\* p lists the elements in comparator order, equal elements in their old order
SortedStable(c, n, p) ==
  \A i, j \in 1..n :
    i < j => LET r == c[(p[i] - 1) * n + p[j]]
             IN r < 0 \/ (r = 0 /\ p[i] < p[j])

\* Array.prototype.sort, by its contract (ECMA-262, 23.1.3.30): the result is a
\* permutation of the array; when the comparator is a consistent comparator for
\* the elements, it is sorted by the comparator and elements that compare equal
\* keep their order; otherwise the order is implementation-defined.
SortOutcomes(rows, orderBy) ==
  LET n == Len(rows)
      c == Comparisons(rows, orderBy)
      sorts == IF ConsistentComparator(c, n)
               THEN {p \in Perms(n) : SortedStable(c, n, p)}
               ELSE Perms(n)
  IN {[i \in 1..n |-> rows[p[i]]] : p \in sorts}

\* the rows processedData can hold after the orderBy section
OrderStage(rows, orderBy) ==
  IF Len(orderBy) > 0 THEN SortOutcomes(rows, orderBy) ELSE {rows}

(***************************************************************************)
(* processData as a state machine: one step per section of the function    *)
(***************************************************************************)
VARIABLES
  rawData,        \* the rows handed to processData
  config,         \* config.dataSelection: filters, groupBy, aggregations, orderBy
  pc,             \* the section to run next, "done" after return, "threw" after an exception
  processedData,  \* the local variable of the same name
  afterFilters,   \* processedData as the filters section left it
  afterGroupBy,   \* processedData as the groupBy section left it
  previous        \* the caller's record of an earlier call with the same arguments

\* The state of the HTTP handlers (modelled further down); processData reads
\* and writes none of it
VARIABLES
  users,          \* the User collection: user id -> document
  analyses,       \* the Analysis collection: _id -> document
  files,          \* the File collection: _id -> document
  assets,         \* the Cloudinary assets that exist, by public id
  requests,       \* the HTTP requests received: request -> handler position and locals
  mockUsers,      \* auth-mock.js: const users = new Map(), user id -> user
  userIdCounter   \* auth-mock.js: let userIdCounter

pipeline == <<rawData, config, pc, processedData, afterFilters, afterGroupBy, previous>>
server == <<users, analyses, files, assets, requests, mockUsers, userIdCounter>>
vars == <<rawData, config, pc, processedData, afterFilters, afterGroupBy, previous,
          users, analyses, files, assets, requests, mockUsers, userIdCounter>>

\* no document, no asset, no request
ServerIdle ==
  /\ users = <<>>
  /\ analyses = <<>>
  /\ files = <<>>
  /\ assets = {}
  /\ requests = <<>>
  /\ mockUsers = <<>>
  /\ userIdCounter = 1

\* no earlier call
NoPrevious == [called |-> FALSE, threw |-> FALSE, sortInput |-> <<>>, returned |-> <<>>]

\* let processedData = [...rawData]
Start(rows, cfg) ==
  /\ rawData = rows
  /\ config = cfg
  /\ pc = "filters"
  /\ processedData = rows
  /\ afterFilters = <<>>
  /\ afterGroupBy = <<>>
  /\ previous = NoPrevious
  /\ ServerIdle

\* if (config.dataSelection?.filters?.length > 0) { ... }
ApplyFilters ==
  /\ pc = "filters"
  /\ LET out == FilterStage(processedData, config.filters)
     IN IF out.threw
        THEN /\ pc' = "threw"
             /\ UNCHANGED <<processedData, afterFilters>>
        ELSE /\ pc' = "groupBy"
             /\ processedData' = out.rows
             /\ afterFilters' = out.rows
  /\ UNCHANGED <<rawData, config, afterGroupBy, previous>>
  /\ UNCHANGED server

\* ApplyGroupBy skipping the section when at most one row is left
ApplyGroupBySkipsSingle ==
  /\ pc = "groupBy"
  /\ LET out == IF Len(processedData) > 1
                THEN GroupStage(processedData, config.groupBy, config.aggregations)
                ELSE Returned(processedData)
     IN IF out.threw
        THEN /\ pc' = "threw"
             /\ UNCHANGED <<processedData, afterGroupBy>>
        ELSE /\ pc' = "orderBy"
             /\ processedData' = out.rows
             /\ afterGroupBy' = out.rows
  /\ UNCHANGED <<rawData, config, afterFilters, previous>>
  /\ UNCHANGED server

\* if (config.dataSelection?.groupBy?.length > 0) { ... }
ApplyGroupBy ==
  /\ pc = "groupBy"
  /\ LET out == GroupStage(processedData, config.groupBy, config.aggregations)
     IN IF out.threw
        THEN /\ pc' = "threw"
             /\ UNCHANGED <<processedData, afterGroupBy>>
        ELSE /\ pc' = "orderBy"
             /\ processedData' = out.rows
             /\ afterGroupBy' = out.rows
  /\ UNCHANGED <<rawData, config, afterFilters, previous>>
  /\ UNCHANGED server

\* Array.prototype.sort is a function of the engine: on the input of an earlier
\* call it yields what it yielded then
SameEngine(sorted) ==
  (previous.called /\ ~previous.threw /\ previous.sortInput = processedData)
    => sorted = previous.returned

\* ApplyOrderBy with processedData sharing the caller's array when no section
\* replaced it (`processedData = rawData` written for `[...rawData]`)
ApplyOrderBySortsArgument ==
  /\ pc = "orderBy"
  /\ \E sorted \in OrderStage(processedData, config.orderBy) :
       /\ SameEngine(sorted)
       /\ processedData' = sorted
       /\ rawData' = IF Len(config.filters) = 0 /\ Len(config.groupBy) = 0
                     THEN sorted ELSE rawData
  /\ pc' = "done"
  /\ UNCHANGED <<config, afterFilters, afterGroupBy, previous>>
  /\ UNCHANGED server

\* if (config.dataSelection?.orderBy?.length > 0) { processedData.sort(...) }
\* return processedData; the sort works on the copy made at the start or on the
\* array a section built, never on rawData
ApplyOrderBy ==
  /\ pc = "orderBy"
  /\ \E sorted \in OrderStage(processedData, config.orderBy) :
       /\ SameEngine(sorted)
       /\ processedData' = sorted
  /\ pc' = "done"
  /\ UNCHANGED <<rawData, config, afterFilters, afterGroupBy, previous>>
  /\ UNCHANGED server

Next == ApplyFilters \/ ApplyGroupBy \/ ApplyOrderBy

\* the caller keeps the outcome and calls processData(rawData, config) again
\* with the same two objects: let processedData = [...rawData]
Invoke ==
  /\ pc \in {"done", "threw"}
  /\ ~previous.called
  /\ previous' = [called |-> TRUE, threw |-> pc = "threw",
                  sortInput |-> afterGroupBy, returned |-> processedData]
  /\ pc' = "filters"
  /\ processedData' = rawData
  /\ afterFilters' = <<>>
  /\ afterGroupBy' = <<>>
  /\ UNCHANGED <<rawData, config>>
  /\ UNCHANGED server

NextInvocations == Next \/ Invoke

(***************************************************************************)
(* Inputs                                                                  *)
(***************************************************************************)
MaxRows == 2
MaxFilters == 2
MaxPipelineRows == 3

SeqsUpTo(S, n) == UNION {[1..k -> S] : k \in 0..n}

\* a row object: the columns whose cell is not undefined
MkRow(cells) == [c \in {k \in DOMAIN cells : cells[k] # Undef} |-> cells[c]]

Config(filters, groupBy, aggregations, orderBy) ==
  [filters |-> filters, groupBy |-> groupBy,
   aggregations |-> aggregations, orderBy |-> orderBy]

Filter(column, operator, value) ==
  [column |-> column, operator |-> operator, value |-> value]

Operators == {"equals", "not_equals", "contains", "not_contains", "greater_than",
              "less_than", "between", "in", "not_in"}

\* One column, one filter at most, every operator against every shape of value
FilterCells == {Undef, Null, Num(1), Num(2), Num(5), Str(<<"5">>), Str(<<>>), Str(<<"a">>)}
FilterValues == {Undef, Null, Num(2), Num(5), Str(<<"5">>), Str(<<"A">>), Str(<<"2", "5">>),
                 Arr(<<Num(2), Num(5)>>), Arr(<<Str(<<"5">>), Null>>)}
FilterPool == {Filter("a", op, value) : op \in Operators \cup {"regex"}, value \in FilterValues}

InitFilter ==
  \E rows \in SeqsUpTo({MkRow([c \in {"a"} |-> cell]) : cell \in FilterCells}, MaxRows),
     filters \in SeqsUpTo(FilterPool, 1) :
    Start(rows, Config(filters, <<>>, <<>>, <<>>))

SpecFilter == InitFilter /\ [][Next]_vars

\* One column, up to MaxFilters filters, among them one that drops rows and one
\* whose value is missing
OrderCells == {Null, Num(1), Num(5), Str(<<"5">>)}
OrderFilterPool ==
  {Filter("a", "equals", Num(5)), Filter("a", "greater_than", Num(1)),
   Filter("a", "between", Undef), Filter("a", "between", Arr(<<Num(2), Num(5)>>)),
   Filter("a", "not_in", Arr(<<Num(5)>>)), Filter("a", "regex", Str(<<"5">>))}

InitFilterOrder ==
  \E rows \in SeqsUpTo({MkRow([c \in {"a"} |-> cell]) : cell \in OrderCells}, MaxRows),
     filters \in SeqsUpTo(OrderFilterPool, MaxFilters) :
    Start(rows, Config(filters, <<>>, <<>>, <<>>))

SpecFilterOrder == InitFilterOrder /\ [][Next]_vars

\* Two group columns: integer-like keys, values that differ in type only, values
\* holding the separator, and a name inherited from Object.prototype
GroupCellsG == {Num(2), Num(1), Str(<<"1">>), Str(<<"x">>), Str(<<"x", "|">>),
                Str(<<"v", "a", "l", "u", "e", "O", "f">>)}
GroupCellsH == {Undef, Str(<<"y">>), Str(<<"|", "y">>)}
GroupRows == {MkRow([c \in {"g", "h"} |-> IF c = "g" THEN g ELSE h]) :
                g \in GroupCellsG, h \in GroupCellsH}
Aggregation(column, function) == [column |-> column, function |-> function]

InitGroup ==
  \E rows \in SeqsUpTo(GroupRows, MaxRows),
     groupBy \in {<<>>, <<"g">>, <<"g", "h">>},
     aggregations \in {<<>>, <<Aggregation("g", "count")>>} :
    Start(rows, Config(<<>>, groupBy, aggregations, <<>>))

SpecGroup == InitGroup /\ [][Next]_vars

\* The whole pipeline: two columns and every section empty or not
PipelineRows == {MkRow([c \in {"g", "v"} |-> IF c = "g" THEN g ELSE v]) :
                   g \in {Num(2), Num(1)}, v \in {Num(5), Num(1), Undef}}
PipelineFilters == {<<>>, <<Filter("v", "greater_than", Num(1))>>,
                    <<Filter("g", "equals", Str(<<"1">>))>>,
                    <<Filter("v", "between", Null)>>}
PipelineOrders ==
  {<<>>, <<[column |-> "v", direction |-> "asc"]>>,
   <<[column |-> "v_sum", direction |-> "desc"]>>,
   <<[column |-> "g", direction |-> "desc"], [column |-> "v", direction |-> "asc"]>>}

Init ==
  \E rows \in SeqsUpTo(PipelineRows, MaxPipelineRows),
     filters \in PipelineFilters,
     groupBy \in {<<>>, <<"g">>},
     aggregations \in {<<>>, <<Aggregation("v", "sum")>>},
     orderBy \in PipelineOrders :
    Start(rows, Config(filters, groupBy, aggregations, orderBy))

Spec == Init /\ [][Next]_vars

\* One group column and one aggregated column whose cells are numbers, numeric
\* and other text, the empty text, null or absent; one aggregation at most
MaxAggRows == 2
AggCells == {Undef, Null, Str(<<>>), Str(<<"a">>), Str(<<"2">>), Num(1), Num(3), Num(0 - 1)}
AggRows == {MkRow([c \in {"g", "v"} |-> IF c = "g" THEN g ELSE v]) :
              g \in {Str(<<"x">>), Str(<<"y">>)}, v \in AggCells}
AggPool == {Aggregation("v", function) : function \in AggFunctions \cup {"mode"}}

InitAggregate ==
  \E rows \in SeqsUpTo(AggRows, MaxAggRows),
     groupBy \in {<<>>, <<"g">>},
     aggregations \in SeqsUpTo(AggPool, 1) :
    Start(rows, Config(<<>>, groupBy, aggregations, <<>>))

SpecAggregate == InitAggregate /\ [][Next]_vars

\* One group of up to MaxMedianRows rows whose values are 1..4 or no number
MaxMedianRows == 4
MedianCells == {Num(1), Num(2), Num(3), Num(4), Str(<<"a">>)}
MedianRows == {MkRow([c \in {"g", "v"} |-> IF c = "g" THEN Str(<<"x">>) ELSE v]) :
                 v \in MedianCells}

InitMedian ==
  \E rows \in SeqsUpTo(MedianRows, MaxMedianRows) :
    Start(rows, Config(<<>>, <<"g">>, <<Aggregation("v", "median")>>, <<>>))

SpecMedian == InitMedian /\ [][Next]_vars

\* Two calls in a row with the same arguments, every section empty or not
MaxPurityRows == 3
PurityRows == {MkRow([c \in {"g", "v"} |-> IF c = "g" THEN Num(1) ELSE v]) :
                 v \in {Num(5), Num(1), Undef}}

InitPurity ==
  \E rows \in SeqsUpTo(PurityRows, MaxPurityRows),
     filters \in PipelineFilters,
     groupBy \in {<<>>, <<"g">>},
     aggregations \in {<<>>, <<Aggregation("v", "sum")>>},
     orderBy \in PipelineOrders :
    Start(rows, Config(filters, groupBy, aggregations, orderBy))

SpecPurity == InitPurity /\ [][NextInvocations]_vars

(***************************************************************************)
(* HTTP handlers: one step per database operation a handler awaits; the    *)
(* steps of different requests interleave.  A request is a record          *)
(*   kind      the route                                                   *)
(*   user      req.user.id, the authenticated user                         *)
(*   id        req.params.id; for a create, the _id of the new document    *)
(*   pc        the operation the handler awaits next, "ended" once it has  *)
(*             answered                                                    *)
(*   resource  req.resource: the document ownerOrAdmin read, if any        *)
(*   deletedCount, verifyDeletion   locals of the delete handler           *)
(*   status    the HTTP status answered, 0 before                          *)
(***************************************************************************)
NoResource == [found |-> FALSE, userId |-> "", status |-> "", viewCount |-> 0]
Resource(doc) ==
  [found |-> TRUE, userId |-> doc.userId, status |-> doc.status, viewCount |-> doc.viewCount]

NewRequest(kind, user, id, first) ==
  [kind |-> kind, user |-> user, id |-> id, pc |-> first, resource |-> NoResource,
   deletedCount |-> 0, verifyDeletion |-> FALSE, status |-> 0]

\* the next request arrives, past `auth` (valid token, active user)
Receive(request) ==
  requests' = Append(requests, request)

\* res.status(code).json(...)
Answer(r, code) ==
  requests' = [requests EXCEPT ![r].pc = "ended", ![r].status = code]

Goto(r, next) ==
  requests' = [requests EXCEPT ![r].pc = next]

Insert(collection, id, doc) ==
  [k \in DOMAIN collection \cup {id} |-> IF k = id THEN doc ELSE collection[k]]
Remove(collection, id) ==
  [k \in DOMAIN collection \ {id} |-> collection[k]]

\* User.findByIdAndUpdate(userId, { $inc: { 'usage.totalAnalyses': by } })
IncTotalAnalyses(userId, by) ==
  IF userId \in DOMAIN users
  THEN [users EXCEPT ![userId].totalAnalyses = @ + by]
  ELSE users

\* OwnerOrAdmin with `||` written for `&&`: an admin passes only as the owner
OwnerOrAdminEither(r) ==
  /\ requests[r].pc = "ownerOrAdmin"
  /\ \E ok \in BOOLEAN :
       IF ~ok THEN Answer(r, 500)
       ELSE IF requests[r].id \notin DOMAIN analyses THEN Answer(r, 404)
       ELSE IF \/ analyses[requests[r].id].userId # requests[r].user
               \/ users[requests[r].user].role # "admin"
            THEN Answer(r, 403)
       ELSE requests' = [requests EXCEPT
              ![r].resource = Resource(analyses[requests[r].id]),
              ![r].pc = IF requests[r].kind = "delete" THEN "findExisting"
                        ELSE "incrementViewCount"]
  /\ UNCHANGED <<users, analyses, files, assets, mockUsers, userIdCounter>>
  /\ UNCHANGED pipeline

\* ownerOrAdmin(Analysis): findById(req.params.id), then 404, 403 or next()
OwnerOrAdmin(r) ==
  /\ requests[r].pc = "ownerOrAdmin"
  /\ \E ok \in BOOLEAN :
       IF ~ok THEN Answer(r, 500)
       ELSE IF requests[r].id \notin DOMAIN analyses THEN Answer(r, 404)
       ELSE IF /\ analyses[requests[r].id].userId # requests[r].user
               /\ users[requests[r].user].role # "admin"
            THEN Answer(r, 403)
       ELSE requests' = [requests EXCEPT
              ![r].resource = Resource(analyses[requests[r].id]),
              ![r].pc = IF requests[r].kind = "delete" THEN "findExisting"
                        ELSE "incrementViewCount"]
  /\ UNCHANGED <<users, analyses, files, assets, mockUsers, userIdCounter>>
  /\ UNCHANGED pipeline

\* GET /:id: await analysis.incrementViewCount() saves req.resource with its
\* view count raised by one; saving a document that is gone throws
IncrementViewCount(r) ==
  /\ requests[r].pc = "incrementViewCount"
  /\ \E ok \in BOOLEAN :
       IF ok /\ requests[r].id \in DOMAIN analyses
       THEN /\ analyses' = [analyses EXCEPT
                 ![requests[r].id].viewCount = requests[r].resource.viewCount + 1]
            /\ Answer(r, 200)
       ELSE /\ Answer(r, 500)
            /\ UNCHANGED analyses
  /\ UNCHANGED <<users, files, assets, mockUsers, userIdCounter>>
  /\ UNCHANGED pipeline

\* DELETE /:id: const existingAnalysis = await Analysis.findById(analysisId)
DeleteFindExisting(r) ==
  /\ requests[r].pc = "findExisting"
  /\ \E ok \in BOOLEAN :
       IF ~ok THEN Answer(r, 500)
       ELSE IF requests[r].id \notin DOMAIN analyses THEN Answer(r, 404)
       ELSE Goto(r, "deleteOne")
  /\ UNCHANGED <<users, analyses, files, assets, mockUsers, userIdCounter>>
  /\ UNCHANGED pipeline

\* DeleteOne without the test of deletedCount
DeleteOneUnchecked(r) ==
  /\ requests[r].pc = "deleteOne"
  /\ \E ok \in BOOLEAN :
       IF ~ok THEN Answer(r, 500) /\ UNCHANGED analyses
       ELSE /\ analyses' = Remove(analyses, requests[r].id)
            /\ requests' = [requests EXCEPT
                 ![r].deletedCount = IF requests[r].id \in DOMAIN analyses THEN 1 ELSE 0,
                 ![r].pc = "verifyDeletion"]
  /\ UNCHANGED <<users, files, assets, mockUsers, userIdCounter>>
  /\ UNCHANGED pipeline

\* DELETE /:id: deleteOne, then 500 when deletedCount is 0
DeleteOne(r) ==
  /\ requests[r].pc = "deleteOne"
  /\ \E ok \in BOOLEAN :
       IF ~ok THEN Answer(r, 500) /\ UNCHANGED analyses
       ELSE IF requests[r].id \in DOMAIN analyses
       THEN /\ analyses' = Remove(analyses, requests[r].id)
            /\ requests' = [requests EXCEPT ![r].deletedCount = 1, ![r].pc = "verifyDeletion"]
       ELSE /\ Answer(r, 500)
            /\ UNCHANGED analyses
  /\ UNCHANGED <<users, files, assets, mockUsers, userIdCounter>>
  /\ UNCHANGED pipeline

\* DELETE /:id: after the timeout, findById again; 500 when the document is found
DeleteVerify(r) ==
  /\ requests[r].pc = "verifyDeletion"
  /\ \E ok \in BOOLEAN :
       IF ~ok THEN Answer(r, 500)
       ELSE IF requests[r].id \in DOMAIN analyses
       THEN requests' = [requests EXCEPT ![r].verifyDeletion = TRUE,
                                         ![r].pc = "ended", ![r].status = 500]
       ELSE Goto(r, "decrement")
  /\ UNCHANGED <<users, analyses, files, assets, mockUsers, userIdCounter>>
  /\ UNCHANGED pipeline

\* DELETE /:id: $inc usage.totalAnalyses by -1 on analysis.userId, a failure
\* of the update being caught and logged; then res.json({ success: true })
DeleteDecrement(r) ==
  /\ requests[r].pc = "decrement"
  /\ \E ok \in BOOLEAN :
       users' = IF ok THEN IncTotalAnalyses(requests[r].resource.userId, 0 - 1) ELSE users
  /\ Answer(r, 200)
  /\ UNCHANGED <<analyses, files, assets, mockUsers, userIdCounter>>
  /\ UNCHANGED pipeline

\* POST /create up to the first save: validation, the file checks, reading the
\* sheet and processData end the request (4xx, or 500 when something throws)
\* or let it through
CreateRead(r) ==
  /\ requests[r].pc = "read"
  /\ \E code \in {0, 400, 403, 404, 500} :
       IF code = 0 THEN Goto(r, "save") ELSE Answer(r, code)
  /\ UNCHANGED <<users, analyses, files, assets, mockUsers, userIdCounter>>
  /\ UNCHANGED pipeline

\* POST /create: new Analysis({ ..., status: 'processing' }); await analysis.save()
CreateSave(r) ==
  /\ requests[r].pc = "save"
  /\ \E ok \in BOOLEAN :
       IF ok
       THEN /\ analyses' = Insert(analyses, requests[r].id,
                                  [userId |-> requests[r].user, status |-> "processing",
                                   viewCount |-> 0])
            /\ Goto(r, "complete")
       ELSE /\ Answer(r, 500)
            /\ UNCHANGED analyses
  /\ UNCHANGED <<users, files, assets, mockUsers, userIdCounter>>
  /\ UNCHANGED pipeline

\* POST /create: the insights (their failure is caught), then
\* analysis.status = 'completed'; await analysis.save(); saving a document
\* that is gone throws
CreateComplete(r) ==
  /\ requests[r].pc = "complete"
  /\ \E ok \in BOOLEAN :
       IF ok /\ requests[r].id \in DOMAIN analyses
       THEN /\ analyses' = [analyses EXCEPT ![requests[r].id].status = "completed"]
            /\ Goto(r, "increment")
       ELSE /\ Answer(r, 500)
            /\ UNCHANGED analyses
  /\ UNCHANGED <<users, files, assets, mockUsers, userIdCounter>>
  /\ UNCHANGED pipeline

\* POST /create: $inc usage.totalAnalyses by 1 on req.user.id, then 201
CreateIncrement(r) ==
  /\ requests[r].pc = "increment"
  /\ \E ok \in BOOLEAN :
       IF ok
       THEN /\ users' = IncTotalAnalyses(requests[r].user, 1)
            /\ Answer(r, 201)
       ELSE /\ Answer(r, 500)
            /\ UNCHANGED users
  /\ UNCHANGED <<analyses, files, assets, mockUsers, userIdCounter>>
  /\ UNCHANGED pipeline

\* Analytics routes: three users, one of them an admin, an Analysis of u1 in
\* the store or none, and up to MaxRequests requests, each arriving at any time
MaxRequests == 2
AnalyticsUsers ==
  [u \in {"u1", "u2", "admin"} |->
     [role |-> IF u = "admin" THEN "admin" ELSE "user", totalAnalyses |-> 0]]

\* the request is routed to POST /create, GET /:id or DELETE /:id; the _id of
\* a new Analysis is fresh (here the number of the request)
ReceiveAnalytics ==
  /\ Len(requests) < MaxRequests
  /\ \E kind \in {"create", "get", "delete"}, user \in DOMAIN users,
        id \in 0..(MaxRequests - 1) :
       IF kind = "create"
       THEN Receive(NewRequest(kind, user, Len(requests) + 1, "read"))
       ELSE Receive(NewRequest(kind, user, id, "ownerOrAdmin"))
  /\ UNCHANGED <<users, analyses, files, assets, mockUsers, userIdCounter>>
  /\ UNCHANGED pipeline

PipelineIdle ==
  /\ rawData = <<>>
  /\ config = Config(<<>>, <<>>, <<>>, <<>>)
  /\ pc = "idle"
  /\ processedData = <<>>
  /\ afterFilters = <<>>
  /\ afterGroupBy = <<>>
  /\ previous = NoPrevious

InitAnalytics ==
  /\ PipelineIdle
  /\ \E stored \in BOOLEAN :
       /\ analyses = IF stored
                     THEN Insert(<<>>, 0, [userId |-> "u1", status |-> "completed",
                                           viewCount |-> 0])
                     ELSE <<>>
       /\ users = [AnalyticsUsers EXCEPT !["u1"].totalAnalyses = IF stored THEN 1 ELSE 0]
  /\ files = <<>>
  /\ assets = {}
  /\ requests = <<>>
  /\ mockUsers = <<>>
  /\ userIdCounter = 1

NextAnalytics ==
  \/ ReceiveAnalytics
  \/ \E r \in DOMAIN requests :
       \/ OwnerOrAdmin(r)
       \/ IncrementViewCount(r)
       \/ DeleteFindExisting(r)
       \/ DeleteOne(r)
       \/ DeleteVerify(r)
       \/ DeleteDecrement(r)
       \/ CreateRead(r)
       \/ CreateSave(r)
       \/ CreateComplete(r)
       \/ CreateIncrement(r)

SpecAnalytics == InitAnalytics /\ [][NextAnalytics]_vars

(***************************************************************************)
(* The file routes (routes/files.js).  A File document is modelled by its  *)
(* userId, fileSize, cloudinaryPublicId, status and whether its            *)
(* originalName is a `Copy of ...`; `assets` is the set of public ids the  *)
(* object store holds; a user document carries usage.filesUploaded and     *)
(* usage.storageUsed.  A request carries req.resource (the File document   *)
(* ownerOrAdmin read) and, for an upload, req.file.size.                   *)
(***************************************************************************)
MaxFileRequests == 2

FileSizes == {1, 2}

FileUsers ==
  [u \in {"u1", "admin"} |->
     [role |-> IF u = "admin" THEN "admin" ELSE "user",
      filesUploaded |-> 0, storageUsed |-> 0]]

FileResource(found, doc) ==
  [found |-> found, userId |-> doc.userId, fileSize |-> doc.fileSize,
   cloudinaryPublicId |-> doc.cloudinaryPublicId, status |-> doc.status]

NoFile == [userId |-> "", fileSize |-> 0, cloudinaryPublicId |-> 0, status |-> ""]

\* User.findByIdAndUpdate(userId, { $inc: { 'usage.filesUploaded': count,
\* 'usage.storageUsed': size } })
IncUsage(userId, count, size) ==
  IF userId \in DOMAIN users
  THEN [users EXCEPT ![userId].filesUploaded = @ + count,
                     ![userId].storageUsed = @ + size]
  ELSE users

\* the request is routed to POST /upload, DELETE /:id or POST /:id/duplicate;
\* the _id of a new File and the public id of a new asset are fresh (here the
\* number of the request)
ReceiveFiles ==
  /\ Len(requests) < MaxFileRequests
  /\ \E kind \in {"upload", "delete", "duplicate"}, user \in DOMAIN users,
        id \in 0..(MaxFileRequests - 1), size \in FileSizes :
       Receive([kind |-> kind, user |-> user,
                id |-> IF kind = "upload" THEN Len(requests) + 1 ELSE id,
                pc |-> IF kind = "upload" THEN "uploadExcelFile" ELSE "ownerOrAdmin",
                resource |-> FileResource(FALSE, NoFile),
                size |-> IF kind = "upload" THEN size ELSE 0,
                status |-> 0])
  /\ UNCHANGED <<users, analyses, files, assets, mockUsers, userIdCounter>>
  /\ UNCHANGED pipeline

\* ownerOrAdmin(File): findById(req.params.id), then 404, 403 or next()
OwnerOrAdminFile(r) ==
  /\ requests[r].pc = "ownerOrAdmin"
  /\ \E ok \in BOOLEAN :
       IF ~ok THEN Answer(r, 500)
       ELSE IF requests[r].id \notin DOMAIN files THEN Answer(r, 404)
       ELSE IF /\ files[requests[r].id].userId # requests[r].user
               /\ users[requests[r].user].role # "admin"
            THEN Answer(r, 403)
       ELSE requests' = [requests EXCEPT
              ![r].resource = FileResource(TRUE, files[requests[r].id]),
              ![r].pc = IF requests[r].kind = "delete" THEN "deleteFile"
                        ELSE "duplicate"]
  /\ UNCHANGED <<users, analyses, files, assets, mockUsers, userIdCounter>>
  /\ UNCHANGED pipeline

\* POST /upload: await cloudinaryService.uploadExcelFile(filePath, originalname)
UploadExcelFile(r) ==
  /\ requests[r].pc = "uploadExcelFile"
  /\ \E ok \in BOOLEAN :
       IF ok
       THEN assets' = assets \cup {requests[r].id} /\ Goto(r, "save")
       ELSE UNCHANGED assets /\ Answer(r, 500)
  /\ UNCHANGED <<users, analyses, files, mockUsers, userIdCounter>>
  /\ UNCHANGED pipeline

\* POST /upload: new File({ ..., status: 'processing' }); await fileRecord.save()
UploadSave(r) ==
  /\ requests[r].pc = "save"
  /\ \E ok \in BOOLEAN :
       IF ok
       THEN /\ files' = Insert(files, requests[r].id,
                               [userId |-> requests[r].user,
                                fileSize |-> requests[r].size,
                                cloudinaryPublicId |-> requests[r].id,
                                status |-> "processing", copy |-> FALSE])
            /\ Goto(r, "analyze")
       ELSE UNCHANGED files /\ Answer(r, 500)
  /\ UNCHANGED <<users, analyses, assets, mockUsers, userIdCounter>>
  /\ UNCHANGED pipeline

\* POST /upload: await analyzeExcelFile(filePath); fileRecord.status =
\* 'processed'; await fileRecord.save(); either may throw into the inner catch
UploadAnalyze(r) ==
  /\ requests[r].pc = "analyze"
  /\ \E ok \in BOOLEAN :
       IF ok /\ requests[r].id \in DOMAIN files
       THEN /\ files' = [files EXCEPT ![requests[r].id].status = "processed"]
            /\ Goto(r, "increment")
       ELSE UNCHANGED files /\ Goto(r, "failed")
  /\ UNCHANGED <<users, analyses, assets, mockUsers, userIdCounter>>
  /\ UNCHANGED pipeline

\* POST /upload: $inc filesUploaded by 1 and storageUsed by size, then 201; a
\* rejected update is thrown into the inner catch
UploadIncrement(r) ==
  /\ requests[r].pc = "increment"
  /\ \E ok \in BOOLEAN :
       IF ok
       THEN users' = IncUsage(requests[r].user, 1, requests[r].size) /\ Answer(r, 201)
       ELSE UNCHANGED users /\ Goto(r, "failed")
  /\ UNCHANGED <<analyses, files, assets, mockUsers, userIdCounter>>
  /\ UNCHANGED pipeline

\* POST /upload, inner catch: fileRecord.status = 'failed'; await
\* fileRecord.save(), then 201; a save that throws reaches the outer catch
UploadFailed(r) ==
  /\ requests[r].pc = "failed"
  /\ \E ok \in BOOLEAN :
       IF ok /\ requests[r].id \in DOMAIN files
       THEN /\ files' = [files EXCEPT ![requests[r].id].status = "failed"]
            /\ Answer(r, 201)
       ELSE UNCHANGED files /\ Answer(r, 500)
  /\ UNCHANGED <<users, analyses, assets, mockUsers, userIdCounter>>
  /\ UNCHANGED pipeline

\* DELETE /:id: await cloudinaryService.deleteFile(file.cloudinaryPublicId);
\* a failure is logged and the handler goes on
DeleteFile(r) ==
  /\ requests[r].pc = "deleteFile"
  /\ \E ok \in BOOLEAN :
       assets' = IF ok THEN assets \ {requests[r].resource.cloudinaryPublicId}
                 ELSE assets
  /\ Goto(r, "decrement")
  /\ UNCHANGED <<users, analyses, files, mockUsers, userIdCounter>>
  /\ UNCHANGED pipeline

\* DELETE /:id: $inc filesUploaded by -1 and storageUsed by -file.fileSize
DeleteDecrementUsage(r) ==
  /\ requests[r].pc = "decrement"
  /\ \E ok \in BOOLEAN :
       IF ok
       THEN /\ users' = IncUsage(requests[r].resource.userId, -1,
                                 -requests[r].resource.fileSize)
            /\ Goto(r, "findByIdAndDelete")
       ELSE UNCHANGED users /\ Answer(r, 500)
  /\ UNCHANGED <<analyses, files, assets, mockUsers, userIdCounter>>
  /\ UNCHANGED pipeline

\* DELETE /:id: await File.findByIdAndDelete(file._id), then 200
DeleteRecord(r) ==
  /\ requests[r].pc = "findByIdAndDelete"
  /\ \E ok \in BOOLEAN :
       IF ok
       THEN files' = Remove(files, requests[r].id) /\ Answer(r, 200)
       ELSE UNCHANGED files /\ Answer(r, 500)
  /\ UNCHANGED <<users, analyses, assets, mockUsers, userIdCounter>>
  /\ UNCHANGED pipeline

\* POST /:id/duplicate: 400 unless the original is processed; the copy reuses
\* the original's cloudinaryPublicId and fileSize; await duplicatedFile.save()
DuplicateSave(r) ==
  /\ requests[r].pc = "duplicate"
  /\ \E ok \in BOOLEAN :
       IF requests[r].resource.status # "processed"
       THEN UNCHANGED files /\ Answer(r, 400)
       ELSE IF ok
       THEN /\ files' = Insert(files, r,
                               [userId |-> requests[r].user,
                                fileSize |-> requests[r].resource.fileSize,
                                cloudinaryPublicId |->
                                  requests[r].resource.cloudinaryPublicId,
                                status |-> "processed", copy |-> TRUE])
            /\ Goto(r, "duplicateIncrement")
       ELSE UNCHANGED files /\ Answer(r, 500)
  /\ UNCHANGED <<users, analyses, assets, mockUsers, userIdCounter>>
  /\ UNCHANGED pipeline

\* POST /:id/duplicate: $inc filesUploaded by 1 (no storage), then 201
DuplicateIncrement(r) ==
  /\ requests[r].pc = "duplicateIncrement"
  /\ \E ok \in BOOLEAN :
       IF ok
       THEN users' = IncUsage(requests[r].user, 1, 0) /\ Answer(r, 201)
       ELSE UNCHANGED users /\ Answer(r, 500)
  /\ UNCHANGED <<analyses, files, assets, mockUsers, userIdCounter>>
  /\ UNCHANGED pipeline

\* before the first request either nothing is stored or u1 has one uploaded,
\* processed and counted file
InitFiles ==
  /\ PipelineIdle
  /\ \E stored \in BOOLEAN :
       /\ files = IF stored
                  THEN Insert(<<>>, 0, [userId |-> "u1", fileSize |-> 1,
                                        cloudinaryPublicId |-> 0,
                                        status |-> "processed", copy |-> FALSE])
                  ELSE <<>>
       /\ assets = IF stored THEN {0} ELSE {}
       /\ users = IF stored
                  THEN [FileUsers EXCEPT !["u1"].filesUploaded = 1,
                                         !["u1"].storageUsed = 1]
                  ELSE FileUsers
  /\ analyses = <<>>
  /\ requests = <<>>
  /\ mockUsers = <<>>
  /\ userIdCounter = 1

NextFiles ==
  \/ ReceiveFiles
  \/ \E r \in DOMAIN requests :
       \/ OwnerOrAdminFile(r)
       \/ UploadExcelFile(r)
       \/ UploadSave(r)
       \/ UploadAnalyze(r)
       \/ UploadIncrement(r)
       \/ UploadFailed(r)
       \/ DeleteFile(r)
       \/ DeleteDecrementUsage(r)
       \/ DeleteRecord(r)
       \/ DuplicateSave(r)
       \/ DuplicateIncrement(r)

SpecFiles == InitFiles /\ [][NextFiles]_vars

(***************************************************************************)
(* The one-time-password routes (routes/auth.js).  A user document is      *)
(* modelled by its password, passwordResetOTP (the stored hash, NoOtp when *)
(* undefined) and whether passwordResetOTPExpires has passed; a request    *)
(* carries req.body.email, req.body.otp and, as `resource`, the document   *)
(* its findOne returned.                                                   *)
(***************************************************************************)
MaxOtpRequests == 2

\* the least value of Math.floor(100000 + Math.random() * 900000)
FirstOtp == 100000

NoOtp == <<>>

\* crypto.createHash('sha256').update(otp).digest('hex')
Sha256(otp) == <<"sha256", otp>>

\* userSchema.methods.verifyPasswordResetOTP, on the document as read
VerifyPasswordResetOTP(doc, otp) ==
  doc.passwordResetOTP = Sha256(otp) /\ ~doc.passwordResetOTPExpired

\* a request is routed to send-reset-otp, verify-reset-otp or
\* reset-password-with-otp, past its validators; the OTP a send-reset-otp
\* generates is FirstOtp plus the number of the request
ReceiveOtp ==
  /\ Len(requests) < MaxOtpRequests
  /\ \E kind \in {"send", "verify", "reset"}, email \in DOMAIN users \cup {"nobody"},
        otp \in FirstOtp..(FirstOtp + MaxOtpRequests) :
       Receive([kind |-> kind, email |-> email,
                otp |-> IF kind = "send" THEN FirstOtp + Len(requests) + 1 ELSE otp,
                pc |-> "findOne", resource |-> <<>>, status |-> 0])
  /\ UNCHANGED <<users, analyses, files, assets, mockUsers, userIdCounter>>
  /\ UNCHANGED pipeline

\* await User.findOne({ email }) and what each handler does with the document
\* before its next await
OtpFindOne(r) ==
  /\ requests[r].pc = "findOne"
  /\ \E ok \in BOOLEAN :
       IF ~ok THEN Answer(r, 500)
       ELSE IF requests[r].email \notin DOMAIN users
            THEN Answer(r, IF requests[r].kind = "send" THEN 200 ELSE 400)
       ELSE IF requests[r].kind = "send"
            THEN requests' = [requests EXCEPT ![r].resource = users[requests[r].email],
                                              ![r].pc = "saveOtp"]
       ELSE IF ~VerifyPasswordResetOTP(users[requests[r].email], requests[r].otp)
            THEN Answer(r, 400)
       ELSE IF requests[r].kind = "verify" THEN Answer(r, 200)
       ELSE requests' = [requests EXCEPT ![r].resource = users[requests[r].email],
                                         ![r].pc = "savePassword"]
  /\ UNCHANGED <<users, analyses, files, assets, mockUsers, userIdCounter>>
  /\ UNCHANGED pipeline

\* send-reset-otp: user.createPasswordResetOTP(); await user.save(...); the
\* e-mail may fail without failing the request
SendOtpSave(r) ==
  /\ requests[r].pc = "saveOtp"
  /\ \E ok \in BOOLEAN :
       IF ok
       THEN /\ users' = [users EXCEPT
                 ![requests[r].email].passwordResetOTP = Sha256(requests[r].otp),
                 ![requests[r].email].passwordResetOTPExpired = FALSE]
            /\ Answer(r, 200)
       ELSE UNCHANGED users /\ Answer(r, 500)
  /\ UNCHANGED <<analyses, files, assets, mockUsers, userIdCounter>>
  /\ UNCHANGED pipeline

\* reset-password-with-otp: user.password = password; the OTP fields =
\* undefined; await user.save() writes the modified paths; the new password
\* is named after the request
ResetSave(r) ==
  /\ requests[r].pc = "savePassword"
  /\ \E ok \in BOOLEAN :
       IF ok
       THEN /\ users' = [users EXCEPT
                 ![requests[r].email].password = r,
                 ![requests[r].email].passwordResetOTP = NoOtp,
                 ![requests[r].email].passwordResetOTPExpired = TRUE]
            /\ Answer(r, 200)
       ELSE UNCHANGED users /\ Answer(r, 500)
  /\ UNCHANGED <<analyses, files, assets, mockUsers, userIdCounter>>
  /\ UNCHANGED pipeline

\* ten minutes pass: passwordResetOTPExpires > Date.now() no longer holds
OtpExpires ==
  /\ \E u \in DOMAIN users :
       /\ users[u].passwordResetOTP # NoOtp
       /\ ~users[u].passwordResetOTPExpired
       /\ users' = [users EXCEPT ![u].passwordResetOTPExpired = TRUE]
  /\ UNCHANGED <<analyses, files, assets, requests, mockUsers, userIdCounter>>
  /\ UNCHANGED pipeline

\* one user, to whom send-reset-otp has or has not yet issued the OTP FirstOtp
InitOtp ==
  /\ PipelineIdle
  /\ \E issued \in BOOLEAN :
       users = [u \in {"u1"} |->
                  [password |-> 0,
                   passwordResetOTP |-> IF issued THEN Sha256(FirstOtp) ELSE NoOtp,
                   passwordResetOTPExpired |-> ~issued]]
  /\ analyses = <<>>
  /\ files = <<>>
  /\ assets = {}
  /\ requests = <<>>
  /\ mockUsers = <<>>
  /\ userIdCounter = 1

NextOtp ==
  \/ ReceiveOtp
  \/ OtpExpires
  \/ \E r \in DOMAIN requests :
       \/ OtpFindOne(r)
       \/ SendOtpSave(r)
       \/ ResetSave(r)

SpecOtp == InitOtp /\ [][NextOtp]_vars

(***************************************************************************)
(* The mock auth routes (routes/auth-mock.js): `mockUsers` is the          *)
(* in-memory Map `users`, from id to user object, and userIdCounter the    *)
(* module's counter.  A handler runs without interruption from one await   *)
(* to the next.                                                            *)
(***************************************************************************)
MaxRegistrations == 3

MockEmails == {"a@x", "b@x"}

\* POST /register arrives with a valid body
ReceiveRegister ==
  /\ Len(requests) < MaxRegistrations
  /\ \E email \in MockEmails :
       Receive([kind |-> "register", email |-> email, pc |-> "find", status |-> 0])
  /\ UNCHANGED <<users, analyses, files, assets, mockUsers, userIdCounter>>
  /\ UNCHANGED pipeline

\* Array.from(users.values()).find(user => user.email === email): 400 when
\* found, else the handler awaits bcrypt.genSalt and bcrypt.hash
RegisterFind(r) ==
  /\ requests[r].pc = "find"
  /\ IF \E id \in DOMAIN mockUsers : mockUsers[id].email = requests[r].email
     THEN Answer(r, 400)
     ELSE Goto(r, "hash")
  /\ UNCHANGED <<users, analyses, files, assets, mockUsers, userIdCounter>>
  /\ UNCHANGED pipeline

\* once the password is hashed: id: userIdCounter++, users.set(user.id, user),
\* 201; a hashing error is answered 500
RegisterStore(r) ==
  /\ requests[r].pc = "hash"
  /\ \E ok \in BOOLEAN :
       IF ok
       THEN /\ mockUsers' = Insert(mockUsers, userIdCounter,
                                   [id |-> userIdCounter, email |-> requests[r].email])
            /\ userIdCounter' = userIdCounter + 1
            /\ Answer(r, 201)
       ELSE UNCHANGED <<mockUsers, userIdCounter>> /\ Answer(r, 500)
  /\ UNCHANGED <<users, analyses, files, assets>>
  /\ UNCHANGED pipeline

InitMock ==
  /\ PipelineIdle
  /\ ServerIdle

NextMock ==
  \/ ReceiveRegister
  \/ \E r \in DOMAIN requests :
       \/ RegisterFind(r)
       \/ RegisterStore(r)

SpecMock == InitMock /\ [][NextMock]_vars

(***************************************************************************)
(* Properties                                                              *)
(***************************************************************************)
EmptyConfig == Config(<<>>, <<>>, <<>>, <<>>)

\* the rows of `rows` that every filter of `filters` keeps, in the order of `rows`
PassAll(rows, filters) ==
  SelectSeq(rows, LAMBDA row : \A i \in 1..Len(filters) : Predicate(row, filters[i]))

Permute(s, p) == [i \in 1..Len(s) |-> s[p[i]]]

\* the filters section ran with exactly one filter, of operator `op`
SingleFilter(ops) ==
  /\ pc = "groupBy"
  /\ Len(config.filters) = 1
  /\ config.filters[1].operator \in ops

\* the rows of rawData that `keep` accepts, given the cell under the filter's column
Kept(keep(_)) ==
  SelectSeq(rawData, LAMBDA row : keep(Get(row, config.filters[1].column)))

\* C1: with no filters, no groupBy, no aggregations and no orderBy, processData
\* returns a non-empty row sequence unchanged: same rows, same order.
C1_Identity ==
  (pc = "done" /\ rawData # <<>> /\ config = EmptyConfig) => processedData = rawData

C1_Witness ==
  /\ pc = "done" /\ config = EmptyConfig
  /\ Len(rawData) = 3 /\ rawData[1] # rawData[2] /\ rawData[2] # rawData[3]
  /\ processedData = rawData

\* C2: the filters section leaves exactly the rows of the input that every
\* filter keeps, in input order, and listing the filters in another order gives
\* the same result.
C2_FilterSubsequence ==
  pc = "groupBy" =>
    /\ afterFilters = PassAll(rawData, config.filters)
    /\ \A p \in Perms(Len(config.filters)) :
         FilterStage(rawData, Permute(config.filters, p)) = Returned(afterFilters)

\* the fields of a stage-2 record when groupBy is not empty
GroupFields ==
  {config.groupBy[i] : i \in 1..Len(config.groupBy)}
  \cup {config.aggregations[i].column \o "_" \o config.aggregations[i].function :
          i \in {j \in 1..Len(config.aggregations) :
                   config.aggregations[j].function \in AggFunctions}}

\* C3: the output is order(groupAggregate(filter(rows))): filters read the raw
\* rows, grouping reads the filtered rows only, orderBy reads the fields of the
\* stage-2 records only, and a section is skipped iff it is absent or empty.
C3_StageOrder ==
  pc = "done" =>
    /\ afterFilters = PassAll(rawData, config.filters)
    /\ Returned(afterGroupBy) = GroupStage(afterFilters, config.groupBy, config.aggregations)
    /\ processedData \in OrderStage(afterGroupBy, config.orderBy)
    /\ Len(config.filters) = 0 => afterFilters = rawData
    /\ IF Len(config.groupBy) = 0 THEN afterGroupBy = afterFilters
       ELSE LET fields == GroupFields
            IN /\ \A i \in 1..Len(afterGroupBy) : DOMAIN afterGroupBy[i] = fields
               /\ (afterFilters # <<>>) => (afterGroupBy # <<>>)
               /\ (\A i \in 1..Len(config.orderBy) : config.orderBy[i].column \notin fields)
                  => processedData = afterGroupBy
    /\ Len(config.orderBy) = 0 => processedData = afterGroupBy

C3_Witness ==
  /\ pc = "done"
  /\ Len(config.filters) > 0 /\ Len(config.groupBy) > 0 /\ Len(config.orderBy) > 0
  /\ Len(afterFilters) < Len(rawData)
  /\ Len(afterGroupBy) = 2
  /\ processedData # afterGroupBy

\* C4: processData never throws, whatever the rows and the configuration.
C4_NeverThrows == pc # "threw"

\* the group keys of `rows` in the order of their first appearance
FirstSeenKeys(rows, groupBy) ==
  LET first == SelectSeq([i \in 1..Len(rows) |-> i],
                         LAMBDA i : \A j \in 1..(i - 1) :
                           GroupKey(rows[j], groupBy) # GroupKey(rows[i], groupBy))
  IN [k \in 1..Len(first) |-> GroupKey(rows[first[k]], groupBy)]

\* C5: the stage-2 output lists the groups in the order in which their keys
\* first appear in the filtered rows.
C5_FirstSeenOrder ==
  (pc = "orderBy" /\ Len(config.groupBy) > 0) =>
    LET keys == FirstSeenKeys(afterFilters, config.groupBy)
    IN afterGroupBy =
         [k \in 1..Len(keys) |->
            GroupRecord([groupKey |-> keys[k],
                         rows |-> SelectSeq(afterFilters, LAMBDA row :
                                    GroupKey(row, config.groupBy) = keys[k])],
                        config.groupBy, config.aggregations)]

\* the GroupKey of a row: the tuple of its values in the groupBy columns
KeyTuple(row, groupBy) == [i \in 1..Len(groupBy) |-> Get(row, groupBy[i])]

\* C6: stage 2 yields one record per distinct GroupKey tuple of the filtered
\* rows, each computed from exactly the rows that have that tuple.
C6_Partition ==
  (pc = "orderBy" /\ Len(config.groupBy) > 0) =>
    LET tuples == {KeyTuple(afterFilters[i], config.groupBy) : i \in 1..Len(afterFilters)}
    IN /\ Len(afterGroupBy) = Cardinality(tuples)
       /\ \A tuple \in tuples : \E i \in 1..Len(afterGroupBy) :
            afterGroupBy[i] =
              GroupRecord([groupKey |-> Join(tuple, "|"),
                           rows |-> SelectSeq(afterFilters, LAMBDA row :
                                      KeyTuple(row, config.groupBy) = tuple)],
                          config.groupBy, config.aggregations)

\* C7: with a list value, `in` keeps a row iff some element of the list is
\* loosely equal to the cell, and `not_in` keeps exactly the other rows.
C7_LooseMembership ==
  (SingleFilter({"in", "not_in"}) /\ config.filters[1].value.t = "array") =>
    LET value == config.filters[1].value
        member(cell) == \E i \in 1..Len(value.l) : LooseEq(value.l[i], cell)
        other(cell) == ~member(cell)
    IN afterFilters = IF config.filters[1].operator = "in" THEN Kept(member)
                      ELSE Kept(other)

\* C8: greater_than / less_than keep a row iff cell and filter value both coerce
\* to numbers and the cell's number is strictly greater / smaller; a cell that
\* is non-numeric, null, empty or absent is never kept.
C8_NumericComparison ==
  SingleFilter({"greater_than", "less_than"}) =>
    LET bound == ToNumber(config.filters[1].value)
        keep(cell) ==
          /\ ~IsNullish(cell) /\ cell # Str(<<>>)
          /\ ~IsNaN(ToNumber(cell)) /\ ~IsNaN(bound)
          /\ IF config.filters[1].operator = "greater_than"
             THEN ToNumber(cell).n > bound.n
             ELSE ToNumber(cell).n < bound.n
    IN afterFilters = Kept(keep)

\* C9: between with value [lo, hi] keeps a row iff lo <= cell <= hi after
\* numeric coercion, both ends included.
C9_BetweenInclusive ==
  (/\ SingleFilter({"between"})
   /\ config.filters[1].value.t = "array"
   /\ Len(config.filters[1].value.l) = 2) =>
    LET lo == ToNumber(config.filters[1].value.l[1])
        hi == ToNumber(config.filters[1].value.l[2])
        keep(cell) ==
          /\ ~IsNaN(ToNumber(cell)) /\ ~IsNaN(lo) /\ ~IsNaN(hi)
          /\ lo.n <= ToNumber(cell).n /\ ToNumber(cell).n <= hi.n
    IN afterFilters = Kept(keep)

C9_Witness ==
  /\ SingleFilter({"between"})
  /\ config.filters[1].value = Arr(<<Num(2), Num(5)>>)
  /\ rawData = <<[a |-> Num(5)], [a |-> Num(1)]>>
  /\ afterFilters = <<[a |-> Num(5)]>>

\* C10: equals keeps a row iff the cell is loosely equal to the filter value (a
\* numeric string equals its number); not_equals keeps exactly the other rows,
\* so each row is kept by exactly one of the two.
C10_EqualsComplement ==
  SingleFilter({"equals", "not_equals"}) =>
    LET value == config.filters[1].value
        column == config.filters[1].column
        equal(cell) == LooseEq(cell, value)
        unequal(cell) == ~LooseEq(cell, value)
        numericText(cell) == /\ cell.t = "string" /\ AllDigits(cell.s)
                             /\ value.t = "number" /\ DigitsToNat(cell.s) = value.n
    IN /\ afterFilters = IF config.filters[1].operator = "equals" THEN Kept(equal)
                         ELSE Kept(unequal)
       /\ \A i \in 1..Len(rawData) :
            /\ Predicate(rawData[i], Filter(column, "equals", value))
               # Predicate(rawData[i], Filter(column, "not_equals", value))
            /\ numericText(Get(rawData[i], column))
               => Predicate(rawData[i], Filter(column, "equals", value))

C10_Witness ==
  /\ SingleFilter({"equals"})
  /\ config.filters[1].value = Num(5)
  /\ rawData = <<[a |-> Str(<<"5">>)], [a |-> Num(2)]>>
  /\ afterFilters = <<[a |-> Str(<<"5">>)]>>

\* C11: when the filter value is not a list, `in` and `not_in` are both false
\* for every row, so a `not_in` filter with a scalar value removes every row.
C11_NonListMembership ==
  (SingleFilter({"in", "not_in"}) /\ config.filters[1].value.t # "array") =>
    LET value == config.filters[1].value
        column == config.filters[1].column
    IN /\ afterFilters = <<>>
       /\ \A i \in 1..Len(rawData) :
            /\ ~Predicate(rawData[i], Filter(column, "in", value))
            /\ ~Predicate(rawData[i], Filter(column, "not_in", value))

C11_Witness ==
  /\ SingleFilter({"not_in"})
  /\ config.filters[1].value = Num(5)
  /\ rawData = <<[a |-> Num(2)], [a |-> Str(<<"a">>)]>>
  /\ afterFilters = <<>>

\* the filters of the config whose operator is one of the nine known operators
KnownFilters == SelectSeq(config.filters, LAMBDA filter : filter.operator \in Operators)

\* C12: a filter whose operator is none of the nine known operators keeps every
\* row, so the pipeline gives the same outcome as it gives for the config
\* without that filter.
C12_UnknownOperator ==
  /\ \A i \in 1..Len(config.filters) : \A j \in 1..Len(rawData) :
       config.filters[i].operator \notin Operators => Predicate(rawData[j], config.filters[i])
  /\ pc = "threw" => FilterStage(rawData, KnownFilters) = Threw
  /\ pc \in {"groupBy", "orderBy", "done"} =>
       FilterStage(rawData, KnownFilters) = Returned(afterFilters)
  /\ pc = "done" => FilterStage(rawData, KnownFilters) = Returned(processedData)

C12_Witness ==
  /\ pc = "done"
  /\ config.filters = <<Filter("a", "regex", Str(<<"5">>)), Filter("a", "equals", Num(5))>>
  /\ rawData = <<[a |-> Num(1)], [a |-> Num(5)]>>
  /\ processedData = <<[a |-> Num(5)]>>

\* the groups of the filtered rows, as the groupBy section lists them
Groups == ObjectEntries(GroupFrom(EmptyObject, afterFilters, config.groupBy, 1).grouped)

\* the groupBy section ran with one aggregation, of a function in `functions`
SingleAggregation(functions) ==
  /\ pc = "orderBy"
  /\ Len(config.groupBy) > 0
  /\ Len(config.aggregations) = 1
  /\ config.aggregations[1].function \in functions

\* a cell that is neither missing (absent, null or empty) nor non-numeric
NumericCell(cell) == ~IsNullish(cell) /\ cell # Str(<<>>) /\ ~IsNaN(ToNumber(cell))

\* C13: for each group and each aggregation, the record has a field
\* <column>_<function> computed over exactly the numeric-coercible values of
\* the column in the group: a non-numeric or missing value is left out and is
\* never counted as 0.
C13_CoercibleOnly ==
  SingleAggregation(AggFunctions) =>
    LET agg == config.aggregations[1]
        field == agg.column \o "_" \o agg.function
    IN \A i \in 1..Len(afterGroupBy) :
         /\ field \in DOMAIN afterGroupBy[i]
         /\ LET numeric == SelectSeq(Groups[i].rows,
                                     LAMBDA row : NumericCell(Get(row, agg.column)))
            IN afterGroupBy[i][field] = Aggregate(<<>>, numeric, agg)[field]

\* the cells of column `column` in `rows` that Number() turns into a number
CoercibleCells(rows, column) ==
  SelectSeq([j \in 1..Len(rows) |-> Get(rows[j], column)],
            LAMBDA cell : ~IsNaN(ToNumber(cell)))

\* a cell that is absent, or text that does not spell a number
AbsentOrNonNumeric(cell) ==
  \/ cell = Undef
  \/ cell.t = "string" /\ cell.s # <<>> /\ ~AllDigits(cell.s)
     /\ ~(cell.s[1] \in {"-", "+"} /\ AllDigits(Tail(cell.s)))

C16_MedianParity ==
  SingleAggregation({"median"}) =>
    LET column == config.aggregations[1].column
    IN \A i \in 1..Len(afterGroupBy) :
         LET cells == CoercibleCells(Groups[i].rows, column)
             n == Len(cells)
             coerced == [j \in 1..n |-> ToNumber(cells[j]).n]
             out == afterGroupBy[i][column \o "_median"]
         IN \A p \in Perms(n) :
              LET sorted == Permute(coerced, p)
              IN (n > 0 /\ \A j \in 1..(n - 1) : sorted[j] <= sorted[j + 1]) =>
                   IF n % 2 = 1 THEN out = Num(sorted[(n + 1) \div 2])
                   ELSE /\ out.d > 0 /\ ~out.r
                        /\ out.n * 2 = out.d * (sorted[n \div 2] + sorted[(n \div 2) + 1])

C16_Witness ==
  /\ SingleAggregation({"median"})
  /\ rawData = <<[g |-> Str(<<"x">>), v |-> Num(3)], [g |-> Str(<<"x">>), v |-> Num(1)],
                 [g |-> Str(<<"x">>), v |-> Num(4)], [g |-> Str(<<"x">>), v |-> Num(2)]>>
  /\ afterGroupBy = <<[g |-> Str(<<"x">>), v_median |-> [Num(5) EXCEPT !.d = 2]]>>

\* C17: when groupBy is empty the stage-2 output is the filtered row sequence
\* unchanged: same rows, same order, no <column>_<function> field added,
\* whatever aggregations the config holds.
C17_PassThrough ==
  (pc \in {"orderBy", "done"} /\ Len(config.groupBy) = 0) =>
    /\ afterGroupBy = afterFilters
    /\ afterGroupBy = PassAll(rawData, config.filters)
    /\ \A i \in 1..Len(afterGroupBy) : \A k \in 1..Len(config.aggregations) :
         (config.aggregations[k].column \o "_" \o config.aggregations[k].function)
           \notin DOMAIN afterGroupBy[i]

C17_Witness ==
  /\ pc = "orderBy"
  /\ config.groupBy = <<>>
  /\ config.aggregations = <<Aggregation("v", "sum")>>
  /\ config.filters = <<Filter("v", "greater_than", Num(1))>>
  /\ rawData = <<[g |-> Num(2), v |-> Num(5)], [g |-> Num(1), v |-> Num(1)],
                 [g |-> Num(1), v |-> Num(5)]>>
  /\ afterGroupBy = <<[g |-> Num(2), v |-> Num(5)], [g |-> Num(1), v |-> Num(5)]>>

\* the text a value contributes to the joined group key
KeyText(value) == IF IsNullish(value) THEN <<>> ELSE ToStr(value)

\* C18: each stage-2 record holds, for every groupBy column, the text form of
\* the value that every row of the group has in that column (10 gives "10").
C18_GroupColumnText ==
  (pc = "orderBy" /\ Len(config.groupBy) > 0) =>
    \A i \in 1..Len(afterGroupBy) : \A k \in 1..Len(config.groupBy) :
      \A j \in 1..Len(Groups[i].rows) :
        afterGroupBy[i][config.groupBy[k]]
          = Str(KeyText(Get(Groups[i].rows[j], config.groupBy[k])))

\* a and b compare equal on sort spec k: neither value is smaller
TieOn(a, b, k) ==
  LET aVal == Get(a, config.orderBy[k].column)
      bVal == Get(b, config.orderBy[k].column)
  IN ~JsLess(aVal, bVal) /\ ~JsLess(bVal, aVal)

\* on the first sort spec on which a and b compare unequal, a's value is the
\* smaller one and the direction is asc, or the greater one and it is desc
RanksBefore(a, b) ==
  \E k \in 1..Len(config.orderBy) :
    LET aVal == Get(a, config.orderBy[k].column)
        bVal == Get(b, config.orderBy[k].column)
    IN /\ \A m \in 1..(k - 1) : TieOn(a, b, m)
       /\ \/ JsLess(aVal, bVal) /\ config.orderBy[k].direction = "asc"
          \/ JsLess(bVal, aVal) /\ config.orderBy[k].direction = "desc"

\* C19: the output is a permutation of the stage-2 output in which a precedes
\* b whenever, on the first orderBy spec on which they compare unequal, a's
\* value is smaller (asc) or greater (desc); numbers compare numerically and
\* text by code units.
C19_LexicographicOrder ==
  (pc = "done" /\ Len(config.orderBy) > 0) =>
    LET n == Len(processedData)
    IN /\ \E p \in Perms(Len(afterGroupBy)) : processedData = Permute(afterGroupBy, p)
       /\ \A i, j \in 1..n :
            RanksBefore(processedData[i], processedData[j]) => i < j

\* C20: records that tie on every orderBy spec keep the relative order they
\* have in the stage-2 output, and without orderBy the stage-2 order is
\* returned unchanged.
C20_StableSort ==
  pc = "done" =>
    IF Len(config.orderBy) = 0 THEN processedData = afterGroupBy
    ELSE \E p \in Perms(Len(afterGroupBy)) :
           /\ processedData = Permute(afterGroupBy, p)
           /\ \A i, j \in 1..Len(afterGroupBy) :
                (/\ i < j
                 /\ \A k \in 1..Len(config.orderBy) :
                      TieOn(afterGroupBy[p[i]], afterGroupBy[p[j]], k))
                => p[i] < p[j]

C22_DeleteVerified ==
  \A r \in DOMAIN requests :
    requests[r].kind = "delete" =>
      /\ requests[r].status = 200 =>
           /\ requests[r].id \notin DOMAIN analyses
           /\ requests[r].deletedCount = 1
           /\ ~requests[r].verifyDeletion
      /\ (/\ requests[r].pc = "ended"
          /\ requests[r].deletedCount = 0 \/ requests[r].verifyDeletion)
         => requests[r].status \in {403, 404, 500}

C22_Witness ==
  /\ Len(requests) = 2
  /\ requests[1].kind = "delete" /\ requests[2].kind = "delete"
  /\ requests[1].id = 0 /\ requests[2].id = 0
  /\ requests[1].status = 200
  /\ requests[2].resource.found /\ requests[2].status = 500
  /\ 0 \notin DOMAIN analyses

\* every request received has been answered
NoRequestInFlight == \A r \in DOMAIN requests : requests[r].pc = "ended"

\* C25: whenever no analytics request is in flight, usage.totalAnalyses of each
\* user equals the number of Analysis records whose userId is that user.
C25_AnalysisCounter ==
  NoRequestInFlight =>
    \A u \in DOMAIN users :
      users[u].totalAnalyses
        = Cardinality({id \in DOMAIN analyses : analyses[id].userId = u})

\* C27: an Analysis persisted by POST /api/analytics/create is in status
\* 'processing' at first and 'completed' once the handler has answered: no
\* record of a request that has ended, with 201 or with an error, is still in
\* 'processing'.
C27_StatusLifecycle ==
  \A r \in DOMAIN requests :
    (requests[r].kind = "create" /\ requests[r].id \in DOMAIN analyses) =>
      IF requests[r].pc = "ended"
      THEN analyses[requests[r].id].status = "completed"
      ELSE analyses[requests[r].id].status
             = (IF requests[r].pc = "complete" THEN "processing" ELSE "completed")

FilesOf(u) == {id \in DOMAIN files : files[id].userId = u}

RECURSIVE TotalFileSize(_)
TotalFileSize(ids) ==
  IF ids = {} THEN 0
  ELSE LET id == CHOOSE x \in ids : TRUE
       IN files[id].fileSize + TotalFileSize(ids \ {id})

\* C23: whenever no file request is in flight, usage.filesUploaded of each user
\* equals the number of File records whose userId is that user.
C23_FileCounter ==
  NoRequestInFlight =>
    \A u \in DOMAIN users : users[u].filesUploaded = Cardinality(FilesOf(u))

\* C24: usage.storageUsed of a user is never negative, and whenever no file
\* request is in flight it is the sum of fileSize over the user's File records
\* that were counted at upload (uploaded, not duplicated, and processed).
C24_StorageCounter ==
  \A u \in DOMAIN users :
    /\ users[u].storageUsed >= 0
    /\ NoRequestInFlight =>
         users[u].storageUsed
           = TotalFileSize({id \in FilesOf(u) :
                              ~files[id].copy /\ files[id].status = "processed"})

\* C30: whenever no file request is in flight, every File record in status
\* 'processed' carries the public id of an asset the object store still holds.
C30_AssetLiveness ==
  NoRequestInFlight =>
    \A id \in DOMAIN files :
      files[id].status = "processed" => files[id].cloudinaryPublicId \in assets

\* C28: an OTP issued by send-reset-otp allows at most one successful
\* reset-password-with-otp, also when two resets with the same OTP are
\* processed concurrently.
C28_SingleUse ==
  \A r1, r2 \in DOMAIN requests :
    (/\ requests[r1].kind = "reset" /\ requests[r1].status = 200
     /\ requests[r2].kind = "reset" /\ requests[r2].status = 200
     /\ requests[r1].email = requests[r2].email
     /\ requests[r1].otp = requests[r2].otp) => r1 = r2

\* C29: no two users stored in the mock routes' in-memory map have the same
\* email, and no two have the same id.
C29_MockUniqueness ==
  \A k1, k2 \in DOMAIN mockUsers :
    k1 # k2 => /\ mockUsers[k1].email # mockUsers[k2].email
               /\ mockUsers[k1].id # mockUsers[k2].id

=============================================================================
